---- MODULE Spec2Model ----
(***************************************************************************)
(* ezcrash (src/src/lib.rs): a vectored exception handler that decodes a   *)
(* Windows exception, formats a crash report and hands it to a file, the   *)
(* log and a message box, configured through a process-wide OnceCell.      *)
(*                                                                         *)
(* Representation.                                                         *)
(*   - A u32 is a tuple of 8 hexadecimal digits (0..15), a u64/usize a     *)
(*     tuple of 16, most significant first: 0xC0000005 is                  *)
(*     <<12,0,0,0,0,0,0,5>>.  An i32 (NTSTATUS.0) is an integer.           *)
(*   - Text (the Vec<u8> the report is written to) is a sequence of        *)
(*     pieces; a piece is a string.  NL is the line feed and NUL the zero  *)
(*     byte; a literal of a format string and a formatted argument are     *)
(*     pieces of their own, and neither holds a line feed or a zero byte.  *)
(*   - Option<T>: None is <<>>, Some(x) is <<x>>.                           *)
(***************************************************************************)
EXTENDS Integers, Sequences, FiniteSets, TLC

VARIABLES
    CFG,        \* static mut CFG: OnceCell<EzCrashConfiguration>
    handlers,   \* number of entries AddVectoredExceptionHandler has added
    pending,    \* the exception being dispatched: None or Some([ptrs, next])
    last,       \* the latest run of handler: None or Some(its outcome)
    runs,       \* runs of handler during the current (or latest) dispatch
    delivered,  \* sink invocations during the current (or latest) dispatch
    alive,      \* FALSE once a panic inside handler has ended the process
    tpc,        \* per thread: where it is inside init
    targ,       \* per thread: the argument of the init call it is inside
    firstArg,   \* history: the argument of the first init call
    laterDiffers \* history: a later init call passed another configuration

vars == <<CFG, handlers, pending, last, runs, delivered, alive, tpc, targ,
          firstArg, laterDiffers>>

\* Calls of init a behaviour makes at most.
MaxInits == 2

None == <<>>
Some(x) == <<x>>

NL == "\n"
NUL == "<NUL>"

EXCEPTION_CONTINUE_EXECUTION == "EXCEPTION_CONTINUE_EXECUTION"
EXCEPTION_CONTINUE_SEARCH == "EXCEPTION_CONTINUE_SEARCH"
\* handler did not return: the unwrap panicked inside the extern "system" fn.
PANIC == "panic"

(***************************************************************************)
(* Integers and their hexadecimal formatting                               *)
(***************************************************************************)

\* The low `width` hexadecimal digits of the two's complement of n.
RECURSIVE Nibbles(_, _)
Nibbles(n, width) ==
    IF width = 0 THEN <<>> ELSE Nibbles(n \div 16, width - 1) \o <<n % 16>>

\* The i32 that holds the bit pattern of the u32 `d`: how the system stores an
\* NTSTATUS such as 0xC0000005 in EXCEPTION_RECORD.ExceptionCode.
RECURSIVE Unsigned(_)
Unsigned(d) ==
    IF d = <<>> THEN 0 ELSE 16 * Unsigned(SubSeq(d, 1, Len(d) - 1)) + d[Len(d)]

I32Of(d) ==
    (IF d[1] >= 8 THEN d[1] - 16 ELSE d[1]) * 268435456 + Unsigned(Tail(d))

\* A cast that keeps the value and not the bits: negative codes become 0.
AsU32Saturating(c) == IF c < 0 THEN Nibbles(0, 8) ELSE Nibbles(c, 8)

\* `record.ExceptionCode.0 as _`: i32 to u32, the bits kept.
AsU32(c) == Nibbles(c, 8)

USize(n) == Nibbles(n, 16)

HexDigit == <<"0", "1", "2", "3", "4", "5", "6", "7",
              "8", "9", "A", "B", "C", "D", "E", "F">>

\* The index of the first digit of d that formatting keeps: the first one that
\* is not 0, or the last digit when d is 0.
RECURSIVE FirstDigit(_, _)
FirstDigit(d, i) ==
    IF i >= Len(d) \/ d[i] # 0 THEN i ELSE FirstDigit(d, i + 1)

\* The digits d[i..], in upper case.
RECURSIVE DigitsFrom(_, _)
DigitsFrom(d, i) ==
    IF i > Len(d) THEN "" ELSE HexDigit[d[i] + 1] \o DigitsFrom(d, i + 1)

RECURSIVE Zeros(_)
Zeros(k) == IF k <= 0 THEN "" ELSE "0" \o Zeros(k - 1)

\* {:#0<width>X}: "0x", then the digits in upper case, zero-padded so that the
\* whole is at least `width` characters.
FmtHex(d, width) ==
    "0x" \o Zeros(width - 2 - (Len(d) + 1 - FirstDigit(d, 1)))
         \o DigitsFrom(d, FirstDigit(d, 1))

(***************************************************************************)
(* ExceptionType                                                           *)
(***************************************************************************)

ExceptionType == <<
    [name |-> "EXCEPTION_ACCESS_VIOLATION",         repr |-> <<12,0,0,0,0,0,0,5>>],
    [name |-> "EXCEPTION_ARRAY_BOUNDS_EXCEEDED",    repr |-> <<12,0,0,0,0,0,8,12>>],
    [name |-> "EXCEPTION_BREAKPOINT",               repr |-> <<8,0,0,0,0,0,0,3>>],
    [name |-> "EXCEPTION_DATATYPE_MISALIGNMENT",    repr |-> <<8,0,0,0,0,0,0,2>>],
    [name |-> "EXCEPTION_FLT_DENORMAL_OPERAND",     repr |-> <<12,0,0,0,0,0,8,13>>],
    [name |-> "EXCEPTION_FLT_DIVIDE_BY_ZERO",       repr |-> <<12,0,0,0,0,0,8,14>>],
    [name |-> "EXCEPTION_FLT_INEXACT_RESULT",       repr |-> <<12,0,0,0,0,0,8,15>>],
    [name |-> "EXCEPTION_FLT_INVALID_OPERATION",    repr |-> <<12,0,0,0,0,0,9,0>>],
    [name |-> "EXCEPTION_FLT_OVERFLOW",             repr |-> <<12,0,0,0,0,0,9,1>>],
    [name |-> "EXCEPTION_FLT_STACK_CHECK",          repr |-> <<12,0,0,0,0,0,9,2>>],
    [name |-> "EXCEPTION_FLT_UNDERFLOW",            repr |-> <<12,0,0,0,0,0,9,3>>],
    [name |-> "EXCEPTION_GUARD_PAGE",               repr |-> <<8,0,0,0,0,0,0,1>>],
    [name |-> "EXCEPTION_ILLEGAL_INSTRUCTION",      repr |-> <<12,0,0,0,0,0,1,13>>],
    [name |-> "EXCEPTION_INT_DIVIDE_BY_ZERO",       repr |-> <<12,0,0,0,0,0,9,4>>],
    [name |-> "EXCEPTION_INT_OVERFLOW",             repr |-> <<12,0,0,0,0,0,9,5>>],
    [name |-> "EXCEPTION_INVALID_DISPOSITION",      repr |-> <<12,0,0,0,0,0,2,6>>],
    [name |-> "EXCEPTION_INVALID_HANDLE",           repr |-> <<12,0,0,0,0,0,0,8>>],
    [name |-> "EXCEPTION_IN_PAGE_ERROR",            repr |-> <<12,0,0,0,0,0,0,6>>],
    [name |-> "EXCEPTION_NONCONTINUABLE_EXCEPTION", repr |-> <<12,0,0,0,0,0,2,5>>],
    [name |-> "EXCEPTION_POSSIBLE_DEADLOCK",        repr |-> <<12,0,0,0,0,1,9,4>>],
    [name |-> "EXCEPTION_PRIV_INSTRUCTION",         repr |-> <<12,0,0,0,0,0,9,6>>],
    [name |-> "EXCEPTION_SINGLE_STEP",              repr |-> <<8,0,0,0,0,0,0,4>>],
    [name |-> "EXCEPTION_SPAPI_UNRECOVERABLE_STACK_OVERFLOW",
                                                    repr |-> <<14,0,0,0,0,3,0,0>>],
    [name |-> "EXCEPTION_STACK_OVERFLOW",           repr |-> <<12,0,0,0,0,0,15,13>>] >>

\* strum's FromRepr: the variant whose discriminant is the argument, if any.
\* A variant is modelled by its name, which is also what Display prints.
from_repr(discriminant) ==
    LET hits == {i \in 1..Len(ExceptionType) : ExceptionType[i].repr = discriminant}
    IN  IF hits = {} THEN None
        ELSE Some(ExceptionType[CHOOSE i \in hits : TRUE].name)

(***************************************************************************)
(* What the program meets: exceptions, thread contexts, backtraces         *)
(***************************************************************************)

\* 0x00007FF600001000
CodeAddress == <<0,0,0,0,7,15,15,6,0,0,0,0,1,0,0,0>>
\* 0x000000C000012340
DataAddress == <<0,0,0,0,0,0,12,0,0,0,0,1,2,3,4,0>>

\* A CONTEXT whose registers hold base+1 .. base+17, each its own value.
Context(base) ==
    [Rax |-> USize(base + 1),  Rsi |-> USize(base + 2),
     Rbx |-> USize(base + 3),  Rdi |-> USize(base + 4),
     Rcx |-> USize(base + 5),  Rbp |-> USize(base + 6),
     Rdx |-> USize(base + 7),  Rsp |-> USize(base + 8),
     R8  |-> USize(base + 9),  R9  |-> USize(base + 10),
     R10 |-> USize(base + 11), R11 |-> USize(base + 12),
     R12 |-> USize(base + 13), R13 |-> USize(base + 14),
     R14 |-> USize(base + 15), R15 |-> USize(base + 16),
     Rip |-> USize(base + 17)]

Pointers(raw, addr, info0, info1, base) ==
    [ContextRecord |-> Context(base),
     ExceptionRecord |->
        [ExceptionCode |-> raw,
         ExceptionAddress |-> addr,
         ExceptionInformation |-> <<info0, info1, USize(0)>>]]

KnownCodes == {I32Of(ExceptionType[i].repr) : i \in 1..Len(ExceptionType)}

\* Codes outside the enum: 0, 5 (the low half of 0xC0000005), 0x40010006
\* (DBG_PRINTEXCEPTION_C), 0xC0000004, 0xC0000007, 0xE06D7363 (a C++ throw).
UnknownCodes ==
    {0, 5, 1073807366,
     I32Of(<<12,0,0,0,0,0,0,4>>), I32Of(<<12,0,0,0,0,0,0,7>>),
     I32Of(<<14,0,6,13,7,3,6,3>>)}

AccessCodes == {I32Of(<<12,0,0,0,0,0,0,5>>), I32Of(<<12,0,0,0,0,0,0,6>>)}

\* Every code once, and the two memory-access codes (and one other code)
\* with every kind of first auxiliary word.
ExceptionPointers ==
    {Pointers(raw, CodeAddress, USize(0), USize(0), 0) :
        raw \in KnownCodes \cup UnknownCodes}
    \cup
    {Pointers(raw, USize(4096), info0, DataAddress, 74565) :
        raw \in AccessCodes \cup {I32Of(<<12,0,0,0,0,0,9,4>>)},
        info0 \in {USize(1), USize(8), USize(2), DataAddress}}

BacktracePlain ==
    <<"   0: ", "ezcrash::handler", NL, "   1: ", "RtlDispatchException", NL>>
\* A frame whose symbol name carries a zero byte.
BacktraceWithNul ==
    <<"   0: ", "ezcrash::handler", NL, "   1: ", "sym", NUL, "bol", NL>>

\* What one run of handler meets: the backtrace's text and the sinks that fail
\* (none, or one of them).
Environments ==
    [backtrace : {BacktracePlain, BacktraceWithNul},
     failed : {{}, {"file"}, {"log"}, {"messagebox"}}]

(***************************************************************************)
(* The two format specifications of the report                             *)
(***************************************************************************)

\* The usize words the exceptions above carry: addresses, the second auxiliary
\* word, the registers.
Words ==
    UNION {{p.ExceptionRecord.ExceptionAddress,
            p.ExceptionRecord.ExceptionInformation[2]}
           \cup {p.ContextRecord[r] : r \in DOMAIN p.ContextRecord} :
           p \in ExceptionPointers}

\* FmtHex at width 18, tabulated over Words (each word is formatted once, not
\* once per report).
HexTable == [d \in Words |-> FmtHex(d, 18)]

\* {:#018X} of a usize.
Hex18(d) == HexTable[d]

\* {:#010X} of a u32.
Hex10(d) == FmtHex(d, 10)

(***************************************************************************)
(* EzCrashConfiguration                                                    *)
(***************************************************************************)

EzCrashConfiguration ==
    [output_messagebox : BOOLEAN,
     output_log : BOOLEAN,
     output_file : {None, Some("crash")},
     include_stack_trace : BOOLEAN,
     include_thread_context : BOOLEAN]

Default ==
    [output_messagebox |-> TRUE,
     output_log |-> TRUE,
     output_file |-> Some("crash"),
     include_stack_trace |-> TRUE,
     include_thread_context |-> TRUE]

\* A cell whose set replaces the value it holds.
OnceCellSetOverwrite(cell, value) == Some(value)

\* OnceCell::set run to its end with nothing in between: a full cell keeps its
\* value (and set returns Err, which init discards).
OnceCellSet(cell, value) == IF cell # None THEN cell ELSE Some(value)

\* `CFG.get().map_or(EzCrashConfiguration::default(), |x| x.clone())`
CurrentCfg(cell) == IF cell = None THEN Default ELSE cell[1]

(***************************************************************************)
(* The report                                                              *)
(***************************************************************************)

Header == <<"Crash :(", NL>>

AddressSection(addr) ==
    <<"An exception occurred at ", Hex18(addr), NL, NL>>

CodeSection(raw, code) ==
    <<Hex10(AsU32(raw)), ": ", code, NL, NL>>

\* The detail line written for EXCEPTION_ACCESS_VIOLATION alone.
AccessDetailViolationOnly(code, info) ==
    IF code = "EXCEPTION_ACCESS_VIOLATION"
    THEN <<"Unknown access violation at ", Hex18(info[2]), NL>>
    ELSE <<>>

\* `match code { ACCESS_VIOLATION | IN_PAGE_ERROR => match info.0 {..}, _ => {} }`
AccessDetail(code, info) ==
    IF code \in {"EXCEPTION_ACCESS_VIOLATION", "EXCEPTION_IN_PAGE_ERROR"}
    THEN CASE info[1] = USize(0) ->
                <<"Invalid Read from ", Hex18(info[2]), NL>>
           [] info[1] = USize(1) ->
                <<"Invalid Write to ", Hex18(info[2]), NL>>
           [] info[1] = USize(8) ->
                <<"Tripped DEP at ", Hex18(info[2]), NL>>
           [] OTHER ->
                <<"Unknown access violation at ", Hex18(info[2]), NL>>
    ELSE <<>>

ThreadContext(cfg, ctx) ==
    IF cfg.include_thread_context
    THEN    <<NL, "Thread Context", NL>>
         \o <<"RAX: ", Hex18(ctx.Rax), " | RSI: ", Hex18(ctx.Rsi), NL>>
         \o <<"RBX: ", Hex18(ctx.Rbx), " | RDI: ", Hex18(ctx.Rdi), NL>>
         \o <<"RCX: ", Hex18(ctx.Rcx), " | RBP: ", Hex18(ctx.Rbp), NL>>
         \o <<"RDX: ", Hex18(ctx.Rdx), " | RSP: ", Hex18(ctx.Rsp), NL>>
         \o <<"R8: ", Hex18(ctx.R8), " | R9: ", Hex18(ctx.R9), NL>>
         \o <<"R10: ", Hex18(ctx.R10), " | R11: ", Hex18(ctx.R11), NL>>
         \o <<"R12: ", Hex18(ctx.R12), " | R13: ", Hex18(ctx.R13), NL>>
         \o <<"R14: ", Hex18(ctx.R14), " | R15: ", Hex18(ctx.R15), NL>>
         \o <<NL, "RIP: ", Hex18(ctx.Rip), NL>>
    ELSE <<>>

\* `backtrace` is the text Display gives for Backtrace::force_capture().
StackTrace(cfg, backtrace) ==
    IF cfg.include_stack_trace
    THEN <<NL, "Stack Trace", NL>> \o backtrace \o <<NL>>
    ELSE <<>>

\* The report with the stack trace written before the registers.
ReportTraceFirst(cfg, ptrs, code, backtrace) ==
    LET record == ptrs.ExceptionRecord
    IN     Header
        \o AddressSection(record.ExceptionAddress)
        \o CodeSection(record.ExceptionCode, code)
        \o AccessDetail(code, record.ExceptionInformation)
        \o StackTrace(cfg, backtrace)
        \o ThreadContext(cfg, ptrs.ContextRecord)

\* What handler has written to `w` when it reaches the sinks.
Report(cfg, ptrs, code, backtrace) ==
    LET record == ptrs.ExceptionRecord
    IN     Header
        \o AddressSection(record.ExceptionAddress)
        \o CodeSection(record.ExceptionCode, code)
        \o AccessDetail(code, record.ExceptionInformation)
        \o ThreadContext(cfg, ptrs.ContextRecord)
        \o StackTrace(cfg, backtrace)

(***************************************************************************)
(* The sinks                                                               *)
(***************************************************************************)

\* A sink invocation: which sink, its target (the path, the log level, the
\* box's title), the text handed to it, and whether the sink then succeeded.
SinkCall(sink, target, text, ok) ==
    [sink |-> sink, target |-> target, text |-> text, ok |-> ok]

\* `std::fs::write(path, &w)`, its Result discarded.
WriteFile(cfg, w, env) ==
    IF cfg.output_file # None
    THEN <<SinkCall("file", cfg.output_file[1], w, "file" \notin env.failed)>>
    ELSE <<>>

\* CString::new: Err when the bytes hold an interior zero byte.
CStringNew(w) ==
    IF \E i \in 1..Len(w) : w[i] = NUL THEN None ELSE Some(w)

\* `log::error!("{}", message.to_string_lossy())`; the macro gives nothing back,
\* so a logger that drops the entry goes unnoticed.
LogError(cfg, message, env) ==
    IF cfg.output_log
    THEN <<SinkCall("log", "error", message, "log" \notin env.failed)>>
    ELSE <<>>

\* `MessageBoxA(HWND(0), message, s!("Crash"), MB_OK)`, its result discarded.
MessageBox(cfg, message, env) ==
    IF cfg.output_messagebox
    THEN <<SinkCall("messagebox", "Crash", message, "messagebox" \notin env.failed)>>
    ELSE <<>>

(***************************************************************************)
(* handler                                                                 *)
(***************************************************************************)

Outcome(ret, cfg, ptrs, code, w, calls) ==
    [ret |-> ret, cfg |-> cfg, ptrs |-> ptrs, code |-> code, w |-> w,
     calls |-> calls]

\* An unrecognised code that is reported like a recognised one.
UnrecognisedReported(cfg, ptrs, w, env) ==
    Outcome(EXCEPTION_CONTINUE_SEARCH, cfg, ptrs, None, w, WriteFile(cfg, w, env))

\* `let Some(code) = ... else { return EXCEPTION_CONTINUE_EXECUTION; }`
Unrecognised(cfg, ptrs, w, env) ==
    Outcome(EXCEPTION_CONTINUE_EXECUTION, cfg, ptrs, None, w, <<>>)

\* From the file write to the return, for a recognised code.
Dispatch(cfg, ptrs, code, w, env) ==
    LET file == WriteFile(cfg, w, env)
        message == CStringNew(w)
    IN  IF message = None
        THEN Outcome(PANIC, cfg, ptrs, Some(code), w, file)
        ELSE Outcome(EXCEPTION_CONTINUE_SEARCH, cfg, ptrs, Some(code), w,
                     file \o LogError(cfg, message[1], env)
                          \o MessageBox(cfg, message[1], env))

\* One run of handler on the exception `ptrs`, the cell holding `cell`; `env`
\* is what the run meets outside the program: the backtrace's text and whether
\* each sink succeeds.
handler(cell, ptrs, env) ==
    LET cfg == CurrentCfg(cell)
        code == from_repr(AsU32(ptrs.ExceptionRecord.ExceptionCode))
    IN  IF code = None
        THEN Unrecognised(cfg, ptrs, Header, env)
        ELSE Dispatch(cfg, ptrs, code[1],
                      Report(cfg, ptrs, code[1], env.backtrace), env)

(***************************************************************************)
(* The state machine                                                       *)
(***************************************************************************)

Threads == {1, 2}

NoDeliveries == [file |-> 0, log |-> 0, messagebox |-> 0]

Count(calls, sink) == Cardinality({i \in 1..Len(calls) : calls[i].sink = sink})

Init ==
    /\ CFG = None
    /\ handlers = 0
    /\ pending = None
    /\ last = None
    /\ runs = 0
    /\ delivered = NoDeliveries
    /\ alive = TRUE
    /\ tpc = [t \in Threads |-> "idle"]
    /\ targ = [t \in Threads |-> None]
    /\ firstArg = None
    /\ laterDiffers = FALSE

\* init(cfg), run from its first line to its last with nothing in between.
init(cfg) ==
    /\ alive
    /\ pending = None
    /\ last = None
    /\ \A t \in Threads : tpc[t] = "idle"
    /\ handlers < MaxInits
    /\ CFG' = OnceCellSet(CFG, cfg)
    /\ handlers' = handlers + 1
    /\ firstArg' = IF firstArg = None THEN Some(cfg) ELSE firstArg
    /\ laterDiffers' = (laterDiffers \/ (firstArg # None /\ firstArg # Some(cfg)))
    /\ UNCHANGED <<pending, last, runs, delivered, alive, tpc, targ>>

\* The system raises an exception of `from` and starts walking the vectored
\* handlers; with none registered nothing of this program runs.
Raise(from) ==
    /\ alive
    /\ pending = None
    /\ last = None
    /\ handlers > 0
    /\ \E ptrs \in from : pending' = Some([ptrs |-> ptrs, next |-> 1])
    /\ UNCHANGED <<CFG, handlers, last, runs, delivered, alive, tpc, targ,
                   firstArg, laterDiffers>>

\* The system calls the next registered entry, which is handler every time.
\* EXCEPTION_CONTINUE_SEARCH moves on to the next entry (after the last one the
\* system's own handling follows), EXCEPTION_CONTINUE_EXECUTION ends the walk,
\* a panic ends the process.
Invoke(envs) ==
    /\ alive
    /\ pending # None
    /\ \E env \in envs : \E r \in {handler(CFG, pending[1].ptrs, env)} :
            /\ last' = Some(r)
            /\ runs' = runs + 1
            /\ delivered' =
                 [s \in DOMAIN delivered |-> delivered[s] + Count(r.calls, s)]
            /\ alive' = (r.ret # PANIC)
            /\ pending' =
                 IF r.ret = EXCEPTION_CONTINUE_SEARCH /\ pending[1].next < handlers
                 THEN Some([ptrs |-> pending[1].ptrs, next |-> pending[1].next + 1])
                 ELSE None
    /\ UNCHANGED <<CFG, handlers, tpc, targ, firstArg, laterDiffers>>

\* The walk is over and the process lives: the program goes on, and what the
\* walk left behind is looked at no more.
Resume ==
    /\ alive
    /\ pending = None
    /\ last # None
    /\ last' = None
    /\ runs' = 0
    /\ delivered' = NoDeliveries
    /\ UNCHANGED <<CFG, handlers, pending, alive, tpc, targ, firstArg,
                   laterDiffers>>

Next ==
    \/ \E cfg \in EzCrashConfiguration : init(cfg)
    \/ Raise(ExceptionPointers)
    \/ Invoke(Environments)
    \/ Resume

Spec == Init /\ [][Next]_vars

(***************************************************************************)
(* init called from several threads                                        *)
(*                                                                         *)
(* CFG is a std::cell::OnceCell in a `static mut`: set is a read of the    *)
(* cell (is it full?) followed by a write, and nothing orders the two      *)
(* against another thread.  Each thread's call is three steps; the write   *)
(* itself is taken as one step, which leaves out the torn values a read    *)
(* racing with it may see.                                                 *)
(***************************************************************************)

ConcConfigurations ==
    {Default,
     [Default EXCEPT !.output_messagebox = FALSE, !.include_stack_trace = FALSE],
     [Default EXCEPT !.output_file = None, !.include_thread_context = FALSE]}

ConcPointers ==
    {Pointers(I32Of(<<12,0,0,0,0,0,0,5>>), USize(4096), USize(1), DataAddress, 74565),
     Pointers(1073807366, CodeAddress, USize(0), USize(0), 0)}

ConcEnvironments == [backtrace : {BacktracePlain}, failed : {{}, {"file"}}]

\* Calls of init begun so far.
Started == handlers + Cardinality({t \in Threads : tpc[t] # "idle"})

\* set, first half: `if let Some(old) = self.get() { return Err(..) }`
InitGet(t, cfg) ==
    /\ alive
    /\ tpc[t] = "idle"
    /\ Started < MaxInits
    /\ tpc' = [tpc EXCEPT ![t] = IF CFG # None THEN "register" ELSE "insert"]
    /\ targ' = [targ EXCEPT ![t] = Some(cfg)]
    /\ firstArg' = IF firstArg = None THEN Some(cfg) ELSE firstArg
    /\ laterDiffers' = (laterDiffers \/ (firstArg # None /\ firstArg # Some(cfg)))
    /\ UNCHANGED <<CFG, handlers, pending, last, runs, delivered, alive>>

\* set, second half: `slot.insert(value)`, whatever the cell holds by now.
InitInsert(t) ==
    /\ alive
    /\ tpc[t] = "insert"
    /\ CFG' = Some(targ[t][1])
    /\ tpc' = [tpc EXCEPT ![t] = "register"]
    /\ UNCHANGED <<handlers, pending, last, runs, delivered, alive, targ,
                   firstArg, laterDiffers>>

\* `AddVectoredExceptionHandler(0, Some(handler))`
InitRegister(t) ==
    /\ alive
    /\ tpc[t] = "register"
    /\ handlers' = handlers + 1
    /\ tpc' = [tpc EXCEPT ![t] = "idle"]
    /\ targ' = [targ EXCEPT ![t] = None]
    /\ UNCHANGED <<CFG, pending, last, runs, delivered, alive, firstArg,
                   laterDiffers>>

NextConc ==
    \/ \E t \in Threads, cfg \in ConcConfigurations : InitGet(t, cfg)
    \/ \E t \in Threads : InitInsert(t)
    \/ \E t \in Threads : InitRegister(t)
    \/ Raise(ConcPointers)
    \/ Invoke(ConcEnvironments)
    \/ Resume

SpecConc == Init /\ [][NextConc]_vars

(***************************************************************************)
(* What the properties below read off the state                            *)
(***************************************************************************)

\* The latest run of handler (when last # None).
Run == last[1]

RawCode == Run.ptrs.ExceptionRecord.ExceptionCode
Info == Run.ptrs.ExceptionRecord.ExceptionInformation

\* For each variant of the enum, the i32 that has the bits of its discriminant.
Tags == [i \in 1..Len(ExceptionType) |-> I32Of(ExceptionType[i].repr)]

\* The enum's variants whose discriminant has the bits of the i32 `raw`.
Tagged(raw) == {i \in 1..Len(ExceptionType) : Tags[i] = raw}

InTable(raw) == Tagged(raw) # {}

\* The lines of a text: the pieces between line feeds.
RECURSIVE LinesFrom(_, _, _)
LinesFrom(w, i, line) ==
    IF i > Len(w) THEN (IF line = <<>> THEN <<>> ELSE <<line>>)
    ELSE IF w[i] = NL THEN <<line>> \o LinesFrom(w, i + 1, <<>>)
    ELSE LinesFrom(w, i + 1, Append(line, w[i]))

Lines(w) == LinesFrom(w, 1, <<>>)

\* What a line of the report is, read off its first piece.
LineKind(line) ==
    IF line = <<>> THEN "blank"
    ELSE CASE line[1] = "Crash :(" -> "header"
           [] line[1] = "An exception occurred at " -> "address"
           [] Len(line) = 3 /\ line[2] = ": " -> "kind"
           [] line[1] \in {"Invalid Read from ", "Invalid Write to ",
                           "Tripped DEP at ", "Unknown access violation at "}
                -> "detail"
           [] line[1] = "Thread Context" -> "context title"
           [] line[1] \in {"RAX: ", "RBX: ", "RCX: ", "RDX: ",
                           "R8: ", "R10: ", "R12: ", "R14: "}
                /\ Len(line) = 4 -> "pair"
           [] line[1] = "RIP: " -> "rip"
           [] line[1] = "Stack Trace" -> "trace title"
           [] OTHER -> "trace"

\* The kinds of the lines of a text, line by line.
RECURSIVE ShapeFrom(_, _, _)
ShapeFrom(w, i, line) ==
    IF i > Len(w) THEN (IF line = <<>> THEN <<>> ELSE <<LineKind(line)>>)
    ELSE IF w[i] = NL THEN <<LineKind(line)>> \o ShapeFrom(w, i + 1, <<>>)
    ELSE ShapeFrom(w, i + 1, Append(line, w[i]))

Shape(w) == ShapeFrom(w, 1, <<>>)

IsDetail(line) == LineKind(line) = "detail"

\* The sinks a run invoked, in the order it invoked them.
Sinks(calls) == [i \in 1..Len(calls) |-> calls[i].sink]

\* The sinks a configuration enables, in the order file, log, message box.
Enabled(cfg) ==
       (IF cfg.output_file # None THEN <<"file">> ELSE <<>>)
    \o (IF cfg.output_log THEN <<"log">> ELSE <<>>)
    \o (IF cfg.output_messagebox THEN <<"messagebox">> ELSE <<>>)

Received(calls, sink, text) ==
    \E i \in 1..Len(calls) : calls[i].sink = sink /\ calls[i].text = text

(***************************************************************************)
(* C1                                                                      *)
(***************************************************************************)

\* C1: a run of handler on a code that is not a discriminant of ExceptionType
\* returns EXCEPTION_CONTINUE_EXECUTION and invokes no sink, whatever the
\* configuration: no file write, no log entry, no message box; the walk ends
\* with that run.
C1_UnknownCodeResumesSilently ==
    (last # None /\ ~InTable(RawCode)) =>
        /\ Run.ret = EXCEPTION_CONTINUE_EXECUTION
        /\ Run.calls = <<>>
        /\ delivered = NoDeliveries
        /\ runs = 1
        /\ pending = None

\* An unrecognised code handled with every sink enabled and a second
\* registration waiting.
C1_Witness ==
    /\ last # None
    /\ ~InTable(RawCode)
    /\ Enabled(Run.cfg) = <<"file", "log", "messagebox">>
    /\ handlers = 2
    /\ Run.ret = EXCEPTION_CONTINUE_EXECUTION

(***************************************************************************)
(* C2                                                                      *)
(***************************************************************************)

\* C2: a run of handler on a code of the table returns
\* EXCEPTION_CONTINUE_SEARCH, for every configuration, report and sink
\* outcome; it never returns EXCEPTION_CONTINUE_EXECUTION and never ends
\* without returning.
C2_KnownCodeContinuesSearch ==
    (last # None /\ InTable(RawCode)) => Run.ret = EXCEPTION_CONTINUE_SEARCH

(***************************************************************************)
(* C3                                                                      *)
(***************************************************************************)

\* C3: when a known fault is handled with a file path configured and the file
\* write fails, the log (if enabled) and the message box (if enabled) still
\* each receive the full report.
C3_FileFailureDoesNotStopLaterSinks ==
    (/\ last # None
     /\ InTable(RawCode)
     /\ Run.cfg.output_file # None
     /\ \E i \in 1..Len(Run.calls) :
            Run.calls[i].sink = "file" /\ ~Run.calls[i].ok)
    => /\ Run.cfg.output_log => Received(Run.calls, "log", Run.w)
       /\ Run.cfg.output_messagebox => Received(Run.calls, "messagebox", Run.w)

(***************************************************************************)
(* C4                                                                      *)
(***************************************************************************)

\* C4: a run of handler on a known fault invokes exactly the enabled sinks,
\* each once, in the order file, log, message box.
C4_SinksInFixedOrder ==
    (last # None /\ InTable(RawCode)) => Sinks(Run.calls) = Enabled(Run.cfg)

(***************************************************************************)
(* C5                                                                      *)
(***************************************************************************)

\* C5: once init has been called, the cell holds the argument of the first
\* call, however many calls follow and whatever they pass, and every run of
\* handler works with that configuration.
C5_FirstInitWins ==
    /\ handlers > 0 => firstArg # None
    /\ firstArg # None => CFG = firstArg
    /\ last # None => Some(Run.cfg) = firstArg

\* A second init passed another configuration, and a fault handled afterwards
\* was reported under the first one.
C5_Witness ==
    /\ laterDiffers
    /\ handlers = 2
    /\ last # None
    /\ Some(Run.cfg) = firstArg
    /\ Run.cfg # Default

(***************************************************************************)
(* C6                                                                      *)
(***************************************************************************)

\* C6: under any interleaving of init calls on different threads with fault
\* handling, the value of the cell, once it has one, never changes.
C6_SetOnce == [][CFG # None => CFG' = CFG]_vars

(***************************************************************************)
(* C7                                                                      *)
(***************************************************************************)

\* C7: no two variants of ExceptionType share a discriminant, and handler
\* classifies a raw code as the variant tagged with exactly that code, or as
\* none when no variant is.
C7_ClassificationExact ==
    /\ \A i, j \in 1..Len(ExceptionType) :
          ExceptionType[i].repr = ExceptionType[j].repr => i = j
    /\ last # None =>
          /\ \A i \in Tagged(RawCode) : Run.code = Some(ExceptionType[i].name)
          /\ Tagged(RawCode) = {} => Run.code = None

\* The variant with the largest discriminant below 0xE0000000 has been
\* recognised; as an i32 its code is negative.
C7_Witness ==
    /\ last # None
    /\ RawCode < 0
    /\ Run.code = Some("EXCEPTION_POSSIBLE_DEADLOCK")

(***************************************************************************)
(* C8                                                                      *)
(***************************************************************************)

\* The words the exceptions carry as addresses, as {:#018X} must print them.
Printed(word) ==
    CASE word = DataAddress -> "0x000000C000012340"
      [] word = CodeAddress -> "0x00007FF600001000"
      [] word = USize(4096) -> "0x0000000000001000"
      [] word = USize(0) -> "0x0000000000000000"

DetailText(word) ==
    CASE word = USize(0) -> "Invalid Read from "
      [] word = USize(1) -> "Invalid Write to "
      [] word = USize(8) -> "Tripped DEP at "
      [] OTHER -> "Unknown access violation at "

\* C8: the report of EXCEPTION_ACCESS_VIOLATION or EXCEPTION_IN_PAGE_ERROR has
\* exactly one access-detail line, chosen by auxiliary word 0 (0 read, 1 write,
\* 8 DEP, anything else unknown) and naming auxiliary word 1; the report of
\* any other kind has none.
C8_AccessDetailLine ==
    (last # None /\ InTable(RawCode)) =>
        \E lines \in {Lines(Run.w)} : SelectSeq(lines, IsDetail) =
            IF Run.code \in {Some("EXCEPTION_ACCESS_VIOLATION"),
                             Some("EXCEPTION_IN_PAGE_ERROR")}
            THEN << <<DetailText(Info[1]), Printed(Info[2])>> >>
            ELSE <<>>

\* An in-page error whose first auxiliary word is 8 got its DEP line.
C8_Witness ==
    /\ last # None
    /\ Run.code = Some("EXCEPTION_IN_PAGE_ERROR")
    /\ Info[1] = USize(8)
    /\ SelectSeq(Lines(Run.w), IsDetail) =
          << <<"Tripped DEP at ", "0x000000C000012340">> >>

(***************************************************************************)
(* C9                                                                      *)
(***************************************************************************)

Repeat(kind, n) == [i \in 1..n |-> kind]

HasDetail == Run.code \in {Some("EXCEPTION_ACCESS_VIOLATION"),
                           Some("EXCEPTION_IN_PAGE_ERROR")}

\* The lines of the stack-trace block for one of the backtraces: a blank line,
\* the title, the backtrace's own lines.
TraceBlocks ==
    {<<"blank", "trace title">> \o Shape(e.backtrace \o <<NL>>) :
        e \in Environments}

\* C9 as documented: the header; a blank line; ONE line carrying the fault
\* address and the fault kind; a blank line; the access-detail line (memory
\* faults only); 4 lines of register pairs and the instruction-pointer line
\* (when include_thread_context); the stack-trace block (when
\* include_stack_trace); nothing else.
C9_LayoutAsDocumented ==
    (last # None /\ InTable(RawCode)) =>
        \E lines \in {Lines(Run.w)} :
        \E trace \in (IF Run.cfg.include_stack_trace THEN TraceBlocks ELSE {<<>>}) :
            /\ Len(lines) >= 4
            /\ LineKind(lines[1]) = "header"
            /\ LineKind(lines[2]) = "blank"
            /\ \E i, j \in 1..Len(lines[3]) :
                  /\ lines[3][i] = Hex18(Run.ptrs.ExceptionRecord.ExceptionAddress)
                  /\ Some(lines[3][j]) = Run.code
            /\ LineKind(lines[4]) = "blank"
            /\ [i \in 1..(Len(lines) - 4) |-> LineKind(lines[i + 4])] =
                     (IF HasDetail THEN <<"detail">> ELSE <<>>)
                  \o (IF Run.cfg.include_thread_context
                      THEN Repeat("pair", 4) \o <<"rip">> ELSE <<>>)
                  \o trace

\* C9 as the code writes it: the header; the line of the fault address; a
\* blank line; the line of the code and the kind's name; a blank line; the access-detail line
\* (EXCEPTION_ACCESS_VIOLATION and EXCEPTION_IN_PAGE_ERROR only); exactly when
\* include_thread_context: a blank line, the title "Thread Context", 8 lines
\* of register pairs, a blank line, the RIP line; exactly when
\* include_stack_trace: a blank line, the title "Stack Trace", the backtrace;
\* nothing else, and in this order.
C9_LayoutAsWritten ==
    (last # None /\ InTable(RawCode)) =>
        /\ \E shape \in {Shape(Run.w)} :
           \E trace \in (IF Run.cfg.include_stack_trace THEN TraceBlocks ELSE {<<>>}) :
              shape =
                     <<"header", "address", "blank", "kind", "blank">>
                  \o (IF HasDetail THEN <<"detail">> ELSE <<>>)
                  \o (IF Run.cfg.include_thread_context
                      THEN <<"blank", "context title">> \o Repeat("pair", 8)
                           \o <<"blank", "rip">>
                      ELSE <<>>)
                  \o trace
        /\ \E lines \in {Lines(Run.w)} :
              /\ lines[2] = <<"An exception occurred at ",
                              Printed(Run.ptrs.ExceptionRecord.ExceptionAddress)>>
              /\ Some(lines[4][3]) = Run.code

\* A memory fault reported with registers and stack trace.
C9_Witness ==
    /\ last # None
    /\ Run.code = Some("EXCEPTION_ACCESS_VIOLATION")
    /\ Run.cfg.include_thread_context
    /\ Run.cfg.include_stack_trace
    /\ Len(Shape(Run.w)) = 23

(***************************************************************************)
(* C10                                                                     *)
(***************************************************************************)

\* C10: every call of init adds a registration, and once the walk for a known
\* fault is over handler has run once per registration and each enabled sink
\* has been invoked once per registration.
C10_EveryRegistrationReports ==
    (pending = None /\ last # None /\ InTable(RawCode)) =>
        /\ runs = handlers
        /\ \A s \in DOMAIN delivered :
              delivered[s] =
                 IF \E i \in 1..Len(Enabled(Run.cfg)) : Enabled(Run.cfg)[i] = s
                 THEN handlers ELSE 0

====
